---- MODULE Spec2Model ----
(***************************************************************************)
(* Model of the two route handlers of the ad generator:                    *)
(*   src/app/api/generate-ad/route.ts  POST  (ad generation)               *)
(*   src/app/api/inspect-ad/route.ts   POST  (ad inspection)               *)
(* Each handler is a chain of awaited operations (limiter, body read,      *)
(* cache get, provider call, cache set); the code between two awaits runs  *)
(* without interruption, so every action below is one await resolving plus *)
(* the synchronous code that follows it.  A request is taken to arrive at  *)
(* the instant the limiter decides on it.  Time is counted in hours.       *)
(* The limiter library and the store are not part of the repository: the   *)
(* limiter is an exact sliding window decided atomically, the store a map  *)
(* with expiring entries; either may fail where a profile allows it.       *)
(***************************************************************************)
EXTENDS Integers, Sequences, FiniteSets, TLC

VARIABLES now, ticks, limiter, cache, req, profile

vars == <<now, ticks, limiter, cache, req, profile>>

(***************************************************************************)
(* Bounds of the model: requests, requests in flight and clock steps of    *)
(* each specification                                                      *)
(***************************************************************************)
NReq == 2
MaxTicks == 1
NReqQuota == 4
MaxInflightQuota == 2
MaxTicksQuota == 2
NReqValidate == 4
MaxInflightValidate == 1
NReqClients == 4
MaxInflightClients == 1
MaxTicksClients == 1
MaxInflightRepeat == 1
NReqKeys == 2
MaxInflightKeys == 1
NReqEnv == 2
MaxInflightEnv == 1
NReqExpiry == 3
MaxInflightExpiry == 1
MaxTicksExpiry == 2
NReqAdmission == 4
NReqEntries == 3
MaxInflightEntries == 1
NReqLive == 2
MaxInflightLive == 1
NReqPair == 4
MaxInflightPair == 1
MaxInflightAdmission == 1

(***************************************************************************)
(* Program constants: slidingWindow(3, '86400s'), { ex: 3600 } and         *)
(* { ex: 86400 }, the durations in hours                                   *)
(***************************************************************************)
Quota == 3
Window == 24
GenTTL == 1
InspTTL == 24

GEN == "generate-ad"
INSP == "inspect-ad"
Routes == {GEN, INSP}

(***************************************************************************)
(* JSON values: a leaf is [t, s] with s its text; an object is a sequence  *)
(* of members <<name, value>> in textual order.                            *)
(***************************************************************************)
Str(s) == [t |-> "string", s |-> s]
Num(s) == [t |-> "number", s |-> s]
Arr(s) == [t |-> "array", s |-> s]
Obj(s) == [t |-> "object", s |-> s]
JNull == [t |-> "null", s |-> "null"]
Undefined == [t |-> "undefined", s |-> ""]

\* JavaScript truthiness of a value, as used by `!parsed.ads`, `if (cached)`
Truthy(v) ==
  CASE v.t = "undefined" -> FALSE
    [] v.t = "null" -> FALSE
    [] v.t = "string" -> v.s # ""
    [] v.t = "number" -> v.s # "0"
    [] OTHER -> TRUE

\* property read on a parsed object: the last member of that name wins
Member(members, name) ==
  LET named == {i \in 1..Len(members) : members[i][1] = name}
  IN IF named = {} THEN Undefined
     ELSE members[CHOOSE i \in named : \A j \in named : j <= i][2]

Has(members, name) == \E i \in 1..Len(members) : members[i][1] = name

(***************************************************************************)
(* Validation schemas                                                      *)
(***************************************************************************)
ZString(name, min, max) ==
  [name |-> name, kind |-> "string", min |-> min, max |-> max,
   optional |-> FALSE, values |-> {}]
ZOptString(name, max) ==
  [name |-> name, kind |-> "string", min |-> 0, max |-> max,
   optional |-> TRUE, values |-> {}]
ZEnum(name, values) ==
  [name |-> name, kind |-> "enum", min |-> 0, max |-> 0,
   optional |-> FALSE, values |-> values]

Industries ==
  {"General", "Health", "Finance", "E-commerce", "SaaS", "Real Estate", "Other"}

GenerateAdSchema == <<
  ZString("targetAudience", 10, 100),
  ZString("goal", 10, 100),
  ZString("uniqueSellingPoint", 10, 200),
  ZString("contextDescription", 20, 500),
  ZEnum("brandVoice", {"Professional", "Friendly", "Witty", "Urgent", "Inspirational"}),
  ZEnum("keyEmotion", {"FOMO", "Trust", "Excitement", "Curiosity", "Anger/Solve Pain"}),
  ZOptString("competitors", 100),
  ZEnum("adFormat", {"Single Image", "Carousel", "Video", "Story"}),
  ZEnum("industry", Industries),
  ZEnum("preferredCTA", {"Shop Now", "Learn More", "Get Offer", "Sign Up", "Book Now", "Claim Discount"}),
  ZEnum("visualDirection", {"Lifestyle", "Product Close-Up", "Before/After", "User-Generated", "Infographic"}) >>

InspectAdSchema == <<
  ZString("headline", 5, 120),
  ZString("body", 10, 500),
  ZString("cta", 2, 50),
  ZString("offerDescription", 10, 500),
  ZOptString("websiteOrBrand", 50),
  ZEnum("adType", {"facebook", "instagram", "google-search", "google-display"}),
  ZEnum("industry", Industries) >>

SchemaOf(route) == IF route = GEN THEN GenerateAdSchema ELSE InspectAdSchema

Issue(path, message) == [path |-> path, message |-> message]

\* the issues one schema field raises on the parsed body's members
FieldIssuesMinUnchecked(f, members) ==
  LET v == Member(members, f.name)
  IN CASE v.t = "undefined" ->
            IF f.optional THEN <<>> ELSE << Issue(f.name, "Required") >>
       [] v.t # "string" -> << Issue(f.name, "invalid_type") >>
       [] f.kind = "enum" ->
            IF v.s \in f.values THEN <<>>
            ELSE << Issue(f.name, "invalid_enum_value") >>
       [] Len(v.s) > f.max -> << Issue(f.name, "too_big") >>
       [] OTHER -> <<>>

FieldIssues(f, members) ==
  LET v == Member(members, f.name)
  IN CASE v.t = "undefined" ->
            IF f.optional THEN <<>> ELSE << Issue(f.name, "Required") >>
       [] v.t # "string" -> << Issue(f.name, "invalid_type") >>
       [] f.kind = "enum" ->
            IF v.s \in f.values THEN <<>>
            ELSE << Issue(f.name, "invalid_enum_value") >>
       [] Len(v.s) < f.min -> << Issue(f.name, "too_small") >>
       [] Len(v.s) > f.max -> << Issue(f.name, "too_big") >>
       [] OTHER -> <<>>

\* the issues of the fields from the i-th on, in schema order
RECURSIVE IssuesFrom(_, _, _)
IssuesFrom(schema, members, i) ==
  IF i > Len(schema) THEN <<>>
  ELSE FieldIssues(schema[i], members) \o IssuesFrom(schema, members, i + 1)

SchemaIssues(schema, members) == IssuesFrom(schema, members, 1)

\* z.object(...).safeParse(body).error.errors: a body that is not an object
\* raises one issue with the empty path
ZodIssues(schema, body) ==
  IF body.kind # "object" THEN << Issue("", "invalid_type") >>
  ELSE SchemaIssues(schema, body.members)

\* the parsed data: the schema's fields in schema order, unknown members
\* stripped, an absent optional field left out
ZodDataPassthrough(schema, members) == members

RECURSIVE DataFrom(_, _, _)
DataFrom(schema, members, i) ==
  IF i > Len(schema) THEN <<>>
  ELSE LET f == schema[i]
           v == Member(members, f.name)
       IN (IF v.t = "undefined" THEN <<>> ELSE << <<f.name, v>> >>)
          \o DataFrom(schema, members, i + 1)

ZodData(schema, members) == DataFrom(schema, members, 1)

(***************************************************************************)
(* Requests: the x-forwarded-for header and the body                       *)
(***************************************************************************)
\* a header is absent or a comma-separated list; an entry is its text with
\* or without surrounding blanks
Entry(core, padded) == [core |-> core, padded |-> padded]
HdrAbsent == [present |-> FALSE, parts |-> <<>>]
HdrEmpty == [present |-> TRUE, parts |-> << Entry("", FALSE) >>]
HdrA == [present |-> TRUE, parts |-> << Entry("203.0.113.7", FALSE) >>]
HdrAList ==
  [present |-> TRUE, parts |-> << Entry("203.0.113.7", TRUE), Entry("10.0.0.1", TRUE) >>]
HdrB == [present |-> TRUE, parts |-> << Entry("198.51.100.9", FALSE) >>]

Trim(e) == e.core

\* request.headers.get('x-forwarded-for')?.split(',')[0]?.trim() || '127.0.0.1'
ClientIpNoFallback(hdr) ==
  IF ~hdr.present THEN "undefined" ELSE Trim(hdr.parts[1])

ClientIp(hdr) ==
  IF ~hdr.present THEN "127.0.0.1"
  ELSE LET first == Trim(hdr.parts[1])
       IN IF first = "" THEN "127.0.0.1" ELSE first

\* a body is text that does not parse, a JSON value that is no object, or
\* a JSON object with its members in textual order
Garbage == [kind |-> "garbage", members |-> <<>>]
JsonNullBody == [kind |-> "null", members |-> <<>>]
Object(members) == [kind |-> "object", members |-> members]

GenA == Object(<<
  <<"targetAudience", Str("Busy moms aged 25 40 yrs")>>,
  <<"goal", Str("Increase signups fast")>>,
  <<"uniqueSellingPoint", Str("Only app with live coaching")>>,
  <<"contextDescription",
    Str("We help moms build healthy routines in 10 minutes a day with proven plans.")>>,
  <<"brandVoice", Str("Friendly")>>,
  <<"keyEmotion", Str("Trust")>>,
  <<"adFormat", Str("Single Image")>>,
  <<"industry", Str("Health")>>,
  <<"preferredCTA", Str("Sign Up")>>,
  <<"visualDirection", Str("Lifestyle")>> >>)

\* the body with one member replaced (or added at the end)
With(body, name, v) ==
  Object(SelectSeq(body.members, LAMBDA m : m[1] # name) \o << <<name, v>> >>)
Without(body, name) ==
  Object(SelectSeq(body.members, LAMBDA m : m[1] # name))

Long101 ==
  "0123456789012345678901234567890123456789012345678901234567890123456789012345678901234567890123456789x"

GenB == With(GenA, "competitors", Str("Acme Fit"))
GenShortGoal == With(GenA, "goal", Str("Sell"))
GenLongAudience == With(GenA, "targetAudience", Str(Long101))
GenLongCompetitors == With(GenA, "competitors", Str(Long101))
GenBadVoice == With(GenA, "brandVoice", Str("Angry"))
GenNoGoal == Without(GenA, "goal")
GenNumberGoal == With(GenA, "goal", Num("42"))

InsA == Object(<<
  <<"headline", Str("Sleep better tonight")>>,
  <<"body", Str("Our mattress adapts to you.")>>,
  <<"cta", Str("Shop Now")>>,
  <<"offerDescription", Str("30 nights free trial")>>,
  <<"adType", Str("facebook")>>,
  <<"industry", Str("Health")>> >>)
InsB == With(InsA, "websiteOrBrand", Str("dreamco.example"))
InsShortCta == With(InsA, "cta", Str("X"))
InsBadType == With(InsA, "adType", Str("tiktok"))
InsNoBody == Without(InsA, "body")

\* the same members in another textual order, and with a member that the
\* schema does not declare
Reverse(seq) == [i \in 1..Len(seq) |-> seq[Len(seq) + 1 - i]]
GenShuffled == Object(Reverse(GenA.members))
GenExtra == With(GenA, "utm_source", Str("newsletter"))
InsShuffled == Object(Reverse(InsA.members))
InsExtra == With(InsA, "utm_source", Str("newsletter"))

ValidBodies == {GenA, GenB, InsA, InsB}
ViolatingBodies ==
  {GenShortGoal, GenLongAudience, GenLongCompetitors, GenBadVoice, GenNoGoal,
   GenNumberGoal, InsShortCta, InsBadType, InsNoBody}

\* the route whose schema a body of the pool is written for
HomeRoute(body) == IF Has(body.members, "headline") THEN INSP ELSE GEN

\* the field a violating body offends
Offending(body) ==
  CASE body \in {GenShortGoal, GenNoGoal, GenNumberGoal} -> "goal"
    [] body = GenLongAudience -> "targetAudience"
    [] body = GenLongCompetitors -> "competitors"
    [] body = GenBadVoice -> "brandVoice"
    [] body = InsShortCta -> "cta"
    [] body = InsBadType -> "adType"
    [] body = InsNoBody -> "body"
    [] OTHER -> ""

(***************************************************************************)
(* Cache key                                                               *)
(***************************************************************************)
Quoted(s) == "\"" \o s \o "\""

JsonText(v) == IF v.t = "string" THEN Quoted(v.s) ELSE v.s

\* JSON.stringify of the validated object: members in their stored order
RECURSIVE MembersFrom(_, _)
MembersFrom(data, i) ==
  IF i > Len(data) THEN ""
  ELSE Quoted(data[i][1]) \o ":" \o JsonText(data[i][2])
       \o (IF i < Len(data) THEN "," ELSE "") \o MembersFrom(data, i + 1)

JsonMembers(data) == MembersFrom(data, 1)

JSONstringify(data) == "{" \o JsonMembers(data) \o "}"

\* Buffer.from(text).toString('base64'): an injective encoding of the text,
\* kept symbolic
Base64Truncated(text) == "b64<" \o SubSeq(text, 1, 64) \o ">"

Base64(text) == "b64<" \o text \o ">"

KeyPrefixShared(route) == "gen-ad:"

KeyPrefix(route) == IF route = GEN THEN "gen-ad:" ELSE "inspect:"

cacheKey(route, data) == KeyPrefix(route) \o Base64(JSONstringify(data))

TTLShared(route) == InspTTL

TTL(route) == IF route = GEN THEN GenTTL ELSE InspTTL

(***************************************************************************)
(* Provider replies: the call rejects (transport error, timeout), or       *)
(* resolves with a message content: none, text that is no JSON, the JSON   *)
(* null, or a JSON object.                                                 *)
(***************************************************************************)
Reply(kind, text, members) == [kind |-> kind, text |-> text, members |-> members]
NoReply == Reply("none", "", <<>>)
TransportError == Reply("error", "", <<>>)
EmptyContent == Reply("empty", "", <<>>)
NotJson == Reply("text", "Sure, here are your ads", <<>>)
NullJson == Reply("null", "null", <<>>)
Ads1 == Reply("object", "{ads:[v1]}", << <<"ads", Arr("[v1]")>> >>)
Ads2 == Reply("object", "{ads:[v2]}", << <<"ads", Arr("[v2]")>> >>)
NoAds == Reply("object", "{variations:[v1]}", << <<"variations", Arr("[v1]")>> >>)
NullAds == Reply("object", "{ads:null}", << <<"ads", JNull>> >>)
Analysis1 ==
  Reply("object", "{grade:B,suggestions:[s1]}",
        << <<"grade", Str("B")>>, <<"suggestions", Arr("[s1]")>> >>)
Analysis2 ==
  Reply("object", "{grade:A,suggestions:[s2]}",
        << <<"grade", Str("A")>>, <<"suggestions", Arr("[s2]")>> >>)
NoGrade == Reply("object", "{suggestions:[s1]}", << <<"suggestions", Arr("[s1]")>> >>)
NoSuggestions == Reply("object", "{grade:B}", << <<"grade", Str("B")>> >>)

\* response.choices[0]?.message?.content is missing or empty
ContentMissingNever(reply) == FALSE

ContentMissing(reply) == reply.kind = "empty"

\* JSON.parse(content) succeeds and the required fields are truthy; a parse
\* error and a property read on null both land in the catch
ShapeOkAlways(route, reply) == TRUE

ShapeOk(route, reply) ==
  /\ reply.kind = "object"
  /\ IF route = GEN THEN Truthy(Member(reply.members, "ads"))
     ELSE /\ Truthy(Member(reply.members, "grade"))
          /\ Truthy(Member(reply.members, "suggestions"))

(***************************************************************************)
(* Stored entries and responses                                            *)
(***************************************************************************)
Payload(name, v) == [name |-> name, v |-> v]
Null == Payload("none", Undefined)

\* { ads: parsed.ads } resp. { analysis }
EntryOf(route, reply) ==
  IF route = GEN THEN Payload("ads", Member(reply.members, "ads"))
  ELSE Payload("analysis", Obj(reply.text))

Response(status, error, code, issues, reset, payload, mark) ==
  [status |-> status, error |-> error, code |-> code, issues |-> issues,
   reset |-> reset, payload |-> payload, cache |-> mark, stack |-> ""]
NoResponse == Response(0, "", "", <<>>, 0, Null, "none")

LimitMessage(route) ==
  IF route = GEN THEN "Free limit reached!" ELSE "Analysis limit reached!"

TooManyNoReset(route, decision) ==
  Response(429, LimitMessage(route), "", <<>>, 0, Null, "none")

\* the 429 response: reset is new Date(reset).toISOString(), kept as the
\* instant it denotes
TooMany(route, decision) ==
  Response(429, LimitMessage(route), "", <<>>, decision.reset, Null, "none")

ValidationFailed(issues) ==
  Response(400, "Validation failed", "", issues, 0, Null, "none")

\* a thrown value
Thrown(zod, message, issues) == [zod |-> zod, message |-> message, issues |-> issues]
Error(message) == Thrown(FALSE, message, <<>>)
ZodError(issues) == Thrown(TRUE, "ZodError", issues)

CatchStatusOk(route, err) ==
  Response(200, err.message, "Error", <<>>, 0, Null, "none")

\* process.env.NODE_ENV
NodeEnv == profile.env

\* stack: process.env.NODE_ENV === 'development' && error instanceof Error
\*          ? error.stack : undefined
\* in the 500 body of inspect-ad; the 500 body of generate-ad has no such
\* member.  An undefined member is left out of the body: "".
StackAlways(route, err) == "Error: " \o err.message \o " at POST"

Stack(route, err) ==
  IF route = INSP /\ NodeEnv = "development"
  THEN "Error: " \o err.message \o " at POST"
  ELSE ""

\* the catch block of POST
CatchRethrows(route, err) == NoResponse

Catch(route, err) ==
  IF route = GEN /\ err.zod THEN ValidationFailed(err.issues)
  ELSE [Response(500, err.message, IF err.zod THEN "ZodError" ELSE "Error",
                 <<>>, 0, Null, "none") EXCEPT !.stack = Stack(route, err)]

\* the response on a cache hit
HitResponseStale(route, cached) ==
  Response(200, "", "", <<>>, 0, Payload(cached.name, Undefined),
           IF route = GEN THEN "none" ELSE "hit")

HitResponse(route, cached) ==
  Response(200, "", "", <<>>, 0, cached, IF route = GEN THEN "none" ELSE "hit")

\* the response after a computed result
MissResponse(route, entry) == Response(200, "", "", <<>>, 0, entry, "miss")

(***************************************************************************)
(* The sliding-window limiter: per key, the instants of the admissions of  *)
(* the trailing window.  One decision is one atomic step of the store.     *)
(***************************************************************************)
LimiterPrefix(route) == IF route = GEN THEN "adgen-ratelimit" ELSE "adinsp-ratelimit"

\* ratelimit.limit(`gen_${ip}`) resp. ratelimit.limit(`insp_${ip}`)
LimiterKeyShared(route, ip) == "ratelimit:" \o ip

LimiterKey(route, ip) ==
  LimiterPrefix(route) \o ":" \o (IF route = GEN THEN "gen_" ELSE "insp_") \o ip

Hits(l, k) == IF k \in DOMAIN l THEN l[k] ELSE <<>>

InWindow(hits, t) == SelectSeq(hits, LAMBDA h : h > t - Window)

Decision(success, reset) == [success |-> success, reset |-> reset]
NoDecision == Decision(FALSE, 0)

\* Ratelimit.slidingWindow(3, '86400s'): the decision at instant t
Decide(l, k, t) ==
  LET hits == InWindow(Hits(l, k), t)
  IN Decision(Len(hits) < Quota,
              IF hits = <<>> THEN t + Window ELSE hits[1] + Window)

\* the limiter's state after the decision at instant t
Count(l, k, t) ==
  LET hits == InWindow(Hits(l, k), t)
      after == IF Len(hits) < Quota THEN Append(hits, t) ELSE hits
  IN [x \in DOMAIN l \cup {k} |-> IF x = k THEN after ELSE l[x]]

(***************************************************************************)
(* The key-value store as a cache                                          *)
(***************************************************************************)
Stored(value, expires) == [value |-> value, expires |-> expires]

\* kv.get(key): the live entry, or null
Get(c, k, t) == IF k \in DOMAIN c /\ c[k].expires > t THEN c[k].value ELSE Null

\* kv.set(key, value, { ex: ttl })
SetIfAbsent(c, k, value, t, ttl) ==
  IF k \in DOMAIN c /\ c[k].expires > t THEN c
  ELSE [x \in DOMAIN c \cup {k} |-> IF x = k THEN Stored(value, t + ttl) ELSE c[x]]

Set(c, k, value, t, ttl) ==
  [x \in DOMAIN c \cup {k} |-> IF x = k THEN Stored(value, t + ttl) ELSE c[x]]

\* kv.get(cacheKey).catch(() => null)
LookupThrows(ok, c, k, t) == IF ok THEN Get(c, k, t) ELSE Payload("throw", Undefined)

Lookup(ok, c, k, t) == IF ok THEN Get(c, k, t) ELSE Null

(***************************************************************************)
(* The handlers                                                            *)
(***************************************************************************)
IdleReq ==
  [pc |-> "idle", route |-> "", hdr |-> HdrAbsent, body |-> Garbage, ip |-> "", decision |-> NoDecision, decidedAt |-> 0, key |-> "",
   got |-> Null, reply |-> NoReply, entry |-> Null, resp |-> NoResponse,
   ops |-> <<>>]

Reqs == DOMAIN req

Inflight == Cardinality({r \in Reqs : req[r].pc \notin {"idle", "done"}})

Faulty(what) == IF what \in profile.faults THEN BOOLEAN ELSE {TRUE}

\* if (!success) return 429
AdmittedAlways(decision) == TRUE

Admitted(decision) == decision.success

\* await ratelimit.limit(...) inside the try block: a rejected call lands in
\* the catch block, an answered one is admitted on success
LimitOutcomeFailOpen(up, decision) ==
  IF ~up \/ Admitted(decision) THEN "ok" ELSE "reject"

LimitOutcomeNoReject(up, decision) == IF ~up THEN "error" ELSE "ok"

LimitOutcome(up, decision) ==
  IF ~up THEN "error" ELSE IF Admitted(decision) THEN "ok" ELSE "reject"

\* request.json().catch(() => { throw new Error('Invalid JSON payload') })
ParseFailureAsZod(route) == ZodError(<< Issue("", "Invalid JSON payload") >>)

ParseFailure(route) == Error("Invalid JSON payload")

\* if (cached)
HitNever(cached) == FALSE

Hit(cached) == cached # Null

\* GenerateAdSchema.parse(body) resp. InspectAdSchema.safeParse(body)
ValidateNothing(route, body) == <<>>

Validate(route, body) == ZodIssues(SchemaOf(route), body)

\* parse() throws into the catch block, safeParse() is answered in place
Invalid(route, issues) ==
  IF route = GEN THEN Catch(GEN, ZodError(issues)) ELSE ValidationFailed(issues)

\* kv.set(...).catch(e => console.warn(...)): a failed write is swallowed
SetPropagates(ok) == ok

SetSettles(ok) == TRUE

ProviderFailed(route) ==
  IF route = GEN THEN "OpenAI request failed" ELSE "Analysis failed"

MalformedAsFailed(route) ==
  IF route = GEN THEN "OpenAI request failed" ELSE "Analysis failed"

Malformed(route) ==
  IF route = GEN THEN "Received malformed ad data"
  ELSE "Received malformed analysis data"

Respond(r, resp, op) ==
  req' = [req EXCEPT ![r] = [@ EXCEPT !.pc = "done", !.resp = resp,
                                      !.ops = Append(@, op)]]

\* a request arrives and the limiter decides:
\* const ip = ...; await ratelimit.limit(...); await pending;
\* if (!success) return 429
Admission(r) ==
  /\ req[r].pc = "idle"
  /\ \A q \in Reqs : q < r => req[q].pc # "idle"
  /\ Inflight < profile.inflight
  /\ \E route \in profile.routes, hdr \in profile.hdrs, body \in profile.bodies,
        up \in Faulty("limiter") :
       LET ip == ClientIp(hdr)
           k == LimiterKey(route, ip)
           d == Decide(limiter, k, now)
           arrived == [req[r] EXCEPT !.route = route, !.hdr = hdr, !.body = body,
                                     !.ip = ip, !.decidedAt = now]
           outcome == LimitOutcome(up, d)
       IN /\ limiter' = IF up THEN Count(limiter, k, now) ELSE limiter
          /\ CASE outcome = "error" ->
                    req' = [req EXCEPT ![r] =
                              [arrived EXCEPT !.pc = "done",
                                              !.resp = Catch(route, Error("limiter unavailable")),
                                              !.ops = <<"limit:error">>]]
               [] outcome = "ok" ->
                    req' = [req EXCEPT ![r] =
                              [arrived EXCEPT !.pc = "body",
                                              !.decision = IF up THEN d ELSE NoDecision,
                                              !.ops = << IF up THEN "limit:ok" ELSE "limit:error" >>]]
               [] OTHER ->
                    req' = [req EXCEPT ![r] =
                              [arrived EXCEPT !.pc = "done", !.decision = d,
                                              !.resp = TooMany(route, d),
                                              !.ops = <<"limit:reject">>]]
  /\ UNCHANGED <<now, ticks, cache, profile>>

\* await request.json(); schema validation; cache key; kv.get is called
ReadBody(r) ==
  /\ req[r].pc = "body"
  /\ LET route == req[r].route
         body == req[r].body
         issues == Validate(route, body)
     IN IF body.kind = "garbage"
        THEN Respond(r, Catch(route, ParseFailure(route)), "json:error")
        ELSE IF issues # <<>>
        THEN Respond(r, Invalid(route, issues), "validate:fail")
        ELSE \E validated \in {ZodData(SchemaOf(route), body.members)} :
               req' = [req EXCEPT ![r] =
                         [@ EXCEPT !.pc = "get",
                                   !.key = cacheKey(route, validated),
                                   !.ops = Append(@, "validate:ok")]]
  /\ UNCHANGED <<now, ticks, limiter, cache, profile>>

\* await kv.get(cacheKey).catch(() => null); if (cached) return it; else
\* the provider is called
CacheGet(r) ==
  /\ req[r].pc = "get"
  /\ \E ok \in Faulty("get") :
       LET cached == Lookup(ok, cache, req[r].key, now)
       IN IF cached.name = "throw"
          THEN Respond(r, Catch(req[r].route, Error("store unavailable")), "get:throw")
          ELSE IF Hit(cached)
          THEN req' = [req EXCEPT ![r] =
                         [@ EXCEPT !.pc = "done", !.got = cached,
                                   !.resp = HitResponse(req[r].route, cached),
                                   !.ops = Append(@, "get:hit")]]
          ELSE req' = [req EXCEPT ![r] =
                         [@ EXCEPT !.pc = "provider",
                                   !.ops = Append(@, IF ok THEN "get:miss" ELSE "get:error")]]
  /\ UNCHANGED <<now, ticks, limiter, cache, profile>>

\* await openai.chat.completions.create(...).catch(rethrow); the content is
\* checked and parsed; kv.set is called
ProviderReply(r) ==
  /\ req[r].pc = "provider"
  /\ \E reply \in profile.replies[req[r].route] :
       LET route == req[r].route
           fail(message, op) ==
             req' = [req EXCEPT ![r] =
                       [@ EXCEPT !.pc = "done", !.reply = reply,
                                 !.resp = Catch(route, Error(message)),
                                 !.ops = Append(@, op)]]
       IN IF reply.kind = "error" THEN fail(ProviderFailed(route), "provider:error")
          ELSE IF ContentMissing(reply)
          THEN fail("Empty response from OpenAI", "provider:empty")
          ELSE IF ~ShapeOk(route, reply)
          THEN fail(Malformed(route), "provider:malformed")
          ELSE req' = [req EXCEPT ![r] =
                         [@ EXCEPT !.pc = "set", !.reply = reply,
                                   !.entry = EntryOf(route, reply),
                                   !.ops = Append(@, "provider:ok")]]
  /\ UNCHANGED <<now, ticks, limiter, cache, profile>>

\* await kv.set(cacheKey, entry, { ex }).catch(warn); return the result
CacheSet(r) ==
  /\ req[r].pc = "set"
  /\ \E ok \in Faulty("set") :
       /\ cache' = IF ok
                   THEN Set(cache, req[r].key, req[r].entry, now, TTL(req[r].route))
                   ELSE cache
       /\ IF SetSettles(ok)
          THEN Respond(r, MissResponse(req[r].route, req[r].entry),
                       IF ok THEN "set:ok" ELSE "set:error")
          ELSE Respond(r, Catch(req[r].route, Error("store unavailable")), "set:throw")
  /\ UNCHANGED <<now, ticks, limiter, profile>>

\* time passes
Tick(d) ==
  /\ ticks < profile.ticks
  /\ now' = now + d
  /\ ticks' = ticks + 1
  /\ UNCHANGED <<limiter, cache, req, profile>>

Next ==
  \/ \E r \in Reqs : Admission(r)
  \/ \E r \in Reqs : ReadBody(r)
  \/ \E r \in Reqs : CacheGet(r)
  \/ \E r \in Reqs : ProviderReply(r)
  \/ \E r \in Reqs : CacheSet(r)
  \/ \E d \in profile.steps : Tick(d)

(***************************************************************************)
(* Specifications: the same handlers under different loads                 *)
(***************************************************************************)
Profile(nreq, inflight, nticks, steps, routes, hdrs, bodies, replies, faults) ==
  [nreq |-> nreq, inflight |-> inflight, ticks |-> nticks, steps |-> steps,
   routes |-> routes, hdrs |-> hdrs, bodies |-> bodies, replies |-> replies,
   faults |-> faults, env |-> "production"]

\* the same load with the process started under another NODE_ENV
InEnv(p, env) == [p EXCEPT !.env = env]

InitWith(p) ==
  /\ profile = p
  /\ now = 0
  /\ ticks = 0
  /\ limiter = [k \in {} |-> <<>>]
  /\ cache = [k \in {} |-> Stored(Null, 0)]
  /\ req = [r \in 1..p.nreq |-> IdleReq]

\* the replies of the provider, by route
GenReplies == {TransportError, EmptyContent, NotJson, NullJson, Ads1, Ads2, NoAds, NullAds}
InspReplies == {TransportError, EmptyContent, NotJson, Analysis1, Analysis2, NoGrade, NoSuggestions, Ads1}
AllReplies == [route \in Routes |-> IF route = GEN THEN GenReplies ELSE InspReplies]
GoodReplies == [route \in Routes |-> IF route = GEN THEN {Ads1, Ads2} ELSE {Analysis1, Analysis2}]

\* concurrent requests with every kind of body and of provider reply
Init ==
  InitWith(Profile(NReq, NReq, MaxTicks, {GenTTL}, Routes, {HdrA},
                   {GenA, InsA, Garbage}, AllReplies, {}))

Spec == Init /\ [][Next]_vars

\* concurrent requests with a failing store
InitStore ==
  InitWith(Profile(NReq, NReq, MaxTicks, {GenTTL}, Routes, {HdrA},
                   {GenA, InsA, Garbage},
                   [route \in Routes |-> {TransportError, Ads1, Analysis1}],
                   {"limiter", "get", "set"}))

SpecStore == InitStore /\ [][Next]_vars

\* more requests of one client on one route than the quota, over more
\* than a window
InitQuota ==
  \E route \in Routes :
    InitWith(Profile(NReqQuota, MaxInflightQuota, MaxTicksQuota, {1, Window - 1},
                     {route}, {HdrA}, {IF route = GEN THEN GenA ELSE InsA},
                     [x \in Routes |-> IF x = GEN THEN {Ads1} ELSE {Analysis1}], {}))

SpecQuota == InitQuota /\ [][Next]_vars

\* one client sending valid bodies and bodies with one of the violations
\* of a route's schema, more often than the quota allows
InitValidate ==
  \E v \in ViolatingBodies :
    InitWith(Profile(NReqValidate, MaxInflightValidate, MaxTicks, {GenTTL},
                     {HomeRoute(v)}, {HdrA},
                     {v, IF HomeRoute(v) = GEN THEN GenA ELSE InsA},
                     GoodReplies, {}))

SpecValidate == InitValidate /\ [][Next]_vars

\* concurrent requests of one client with one valid body on one route, the
\* provider answering differently from call to call, the lookup failing or
\* not
InitRace ==
  \E route \in Routes :
    InitWith(Profile(NReq, NReq, MaxTicks, {GenTTL}, {route}, {HdrA},
                     {IF route = GEN THEN GenA ELSE InsA}, GoodReplies, {"get"}))

SpecRace == InitRace /\ [][Next]_vars

\* one client repeating one valid generation request, each request sent
\* after the answer to the one before
InitRepeat ==
  InitWith(Profile(NReqQuota, MaxInflightRepeat, MaxTicksQuota, {GenTTL, Window - 1},
                   {GEN}, {HdrA}, {GenA}, [x \in Routes |-> {Ads1}], {}))

SpecRepeat == InitRepeat /\ [][Next]_vars

\* one client sending a valid body and a variant of it (the optional field
\* added, the members reordered, an undeclared member added) to the body's
\* route, or the valid bodies of both routes to either route
Variants == {GenB, GenShuffled, GenExtra, InsB, InsShuffled, InsExtra}

InitKeys ==
  \/ \E v \in Variants :
       InitWith(Profile(NReqKeys, MaxInflightKeys, MaxTicks, {GenTTL},
                        {HomeRoute(v)}, {HdrA},
                        {v, IF HomeRoute(v) = GEN THEN GenA ELSE InsA},
                        [x \in Routes |-> IF x = GEN THEN {Ads1} ELSE {Analysis1}], {}))
  \/ InitWith(Profile(NReqKeys, MaxInflightKeys, MaxTicks, {GenTTL}, Routes,
                      {HdrA, HdrB}, {GenA, InsA},
                      [x \in Routes |-> IF x = GEN THEN {Ads1} ELSE {Analysis1}], {}))

SpecKeys == InitKeys /\ [][Next]_vars

\* two forms of the forwarded-address header that one run mixes
HeaderPairs == {{HdrAbsent, HdrEmpty}, {HdrAbsent, HdrAList}, {HdrA, HdrAList}}

\* requests of one client on both routes, or requests on one route with
\* two forms of the forwarded-address header; the latter carry a body that
\* is not read before the limiter has decided
InitClients ==
  \/ InitWith(Profile(NReqClients, MaxInflightClients, MaxTicksClients, {Window},
                      Routes, {HdrAList}, {GenA},
                      [x \in Routes |-> IF x = GEN THEN {Ads1} ELSE {Analysis1}], {}))
  \/ \E route \in Routes, hdrs \in HeaderPairs :
       InitWith(Profile(NReqClients, MaxInflightClients, MaxTicksClients, {Window},
                        {route}, hdrs, {Garbage},
                        [x \in Routes |-> IF x = GEN THEN {Ads1} ELSE {Analysis1}], {}))

SpecClients == InitClients /\ [][Next]_vars

\* the values of NODE_ENV a Next.js process runs under
Envs == {"production", "development", "test"}

\* requests on one route that end in each of the handler's failures, under
\* each NODE_ENV
InitEnv ==
  \E env \in Envs, route \in Routes :
    InitWith(InEnv(Profile(NReqEnv, MaxInflightEnv, MaxTicks, {GenTTL}, {route}, {HdrA},
                           {IF route = GEN THEN GenA ELSE InsA, GenNoGoal, Garbage},
                           [x \in Routes |-> {TransportError, EmptyContent, NotJson,
                                              IF x = GEN THEN Ads1 ELSE Analysis1}],
                           {"limiter"}), env))

SpecEnv == InitEnv /\ [][Next]_vars

\* one client repeating one valid request on one route, one request at a
\* time, while up to the longer TTL passes; the provider answers
\* differently from call to call
InitExpiry ==
  \E route \in Routes :
    InitWith(Profile(NReqExpiry, MaxInflightExpiry, MaxTicksExpiry,
                     {GenTTL, InspTTL - GenTTL}, {route}, {HdrA},
                     {IF route = GEN THEN GenA ELSE InsA}, GoodReplies, {}))

SpecExpiry == InitExpiry /\ [][Next]_vars

\* one client sending, more often than the quota allows, bodies that are
\* valid, that violate the route's schema, or that are not JSON, the
\* provider failing, answering with malformed content, or answering well
InitAdmission ==
  \E route \in Routes :
    InitWith(Profile(NReqAdmission, MaxInflightAdmission, MaxTicks, {GenTTL},
                     {route}, {HdrA},
                     IF route = GEN THEN {GenA, GenNoGoal, Garbage}
                     ELSE {InsA, InsNoBody, Garbage},
                     [x \in Routes |-> {TransportError, NotJson,
                                        IF x = GEN THEN Ads1 ELSE Analysis1}],
                     {}))

SpecAdmission == InitAdmission /\ [][Next]_vars

\* one client sending two valid bodies that differ in one field to their
\* route, or the valid bodies of both routes to either route, the provider
\* answering differently from call to call
InitEntries ==
  \/ \E route \in Routes :
       InitWith(Profile(NReqEntries, MaxInflightEntries, MaxTicks, {GenTTL},
                        {route}, {HdrA},
                        IF route = GEN THEN {GenA, GenB} ELSE {InsA, InsB},
                        GoodReplies, {}))
  \/ InitWith(Profile(NReqEntries, MaxInflightEntries, MaxTicks, {GenTTL},
                      Routes, {HdrA}, {GenA, InsA},
                      [x \in Routes |-> IF x = GEN THEN {Ads1} ELSE {Analysis1}], {}))

SpecEntries == InitEntries /\ [][Next]_vars

\* requests on one route with one kind of body, the limiter, the store and
\* the provider failing or not; every awaited operation of a request that
\* was received completes or fails in the end
InitLive ==
  \E route \in Routes :
    \E body \in IF route = GEN THEN {GenA, GenNoGoal, Garbage}
                ELSE {InsA, InsNoBody, Garbage} :
      InitWith(Profile(NReqLive, MaxInflightLive, MaxTicks, {GenTTL}, {route}, {HdrA},
                       {body},
                       [x \in Routes |-> {TransportError,
                                          IF x = GEN THEN Ads1 ELSE Analysis1}],
                       {"limiter", "get", "set"}))

SpecLive ==
  /\ InitLive /\ [][Next]_vars
  /\ \A r \in 1..NReqLive :
       /\ WF_vars(ReadBody(r))
       /\ WF_vars(CacheGet(r))
       /\ WF_vars(ProviderReply(r))
       /\ WF_vars(CacheSet(r))

\* one client sending the valid body of either route to either route, one
\* request at a time
InitPair ==
  InitWith(Profile(NReqPair, MaxInflightPair, MaxTicks, {GenTTL}, Routes, {HdrA},
                   {GenA, InsA},
                   [x \in Routes |-> IF x = GEN THEN {Ads1} ELSE {Analysis1}], {}))

SpecPair == InitPair /\ [][Next]_vars

(***************************************************************************)
(* Properties                                                              *)
(***************************************************************************)
Last(seq) == IF seq = <<>> THEN "" ELSE seq[Len(seq)]
Did(r, op) == \E i \in 1..Len(req[r].ops) : req[r].ops[i] = op
Done(r) == req[r].pc = "done"
PassedAdmission(r) == req[r].ops # <<>> /\ req[r].ops[1] = "limit:ok"
Rejected(r) == req[r].ops # <<>> /\ req[r].ops[1] = "limit:reject"
SameClient(q, r) == req[q].route = req[r].route /\ req[q].ip = req[r].ip
Live(k) == k \in DOMAIN cache /\ cache[k].expires > now

\* the requests other than r that passed admission for r's client and
\* route within the window that ends at r's decision
AdmittedBefore(r) ==
  {q \in Reqs \ {r} : /\ PassedAdmission(q)
                      /\ SameClient(q, r)
                      /\ req[q].decidedAt > req[r].decidedAt - Window
                      /\ req[q].decidedAt <= req[r].decidedAt}

\* C1: the same body submitted twice within the cache TTL, the first call
\* computing and storing its result: the first response is marked
\* cache "miss", the second is a 200 marked cache "hit", and both carry the
\* same payload.
C1_MissThenHit ==
  [][\A r1, r2 \in Reqs :
       ( /\ r1 # r2
         /\ Done(r1) /\ Last(req[r1].ops) = "set:ok"
         /\ req[r2].pc = "get" /\ req'[r2].pc # "get"
         /\ Last(req'[r2].ops) # "get:error"
         /\ req[r2].route = req[r1].route /\ req[r2].body = req[r1].body
         /\ Live(req[r2].key)
         /\ cache[req[r2].key].value = req[r1].entry )
       => /\ req[r1].resp.cache = "miss"
          /\ req'[r2].resp.status = 200
          /\ req'[r2].resp.cache = "hit"
          /\ req'[r2].resp.payload = req[r1].resp.payload]_vars

\* C2: a request decided while 3 requests of its client on its route were
\* admitted within the trailing 24 hours is answered 429 with a reset
\* instant later than the request.
C2_OverQuota429 ==
  \A r \in Reqs :
    (PassedAdmission(r) \/ Rejected(r)) /\ Cardinality(AdmittedBefore(r)) >= Quota
    => /\ Done(r)
       /\ req[r].resp.status = 429
       /\ req[r].resp.reset > req[r].decidedAt

W_C2 ==
  \E r \in Reqs : /\ req[r].resp.status = 429
                  /\ req[r].decidedAt = Window - 1
                  /\ Cardinality(AdmittedBefore(r)) = Quota

\* C3: whatever the interleaving, the requests of one client on one route
\* that pass admission within one 24-hour window are at most 3.
C3_AtMostQuota ==
  \A r \in Reqs :
    PassedAdmission(r) => Cardinality(AdmittedBefore(r)) + 1 <= Quota

W_C3 ==
  \E r, q \in Reqs :
    /\ r # q
    /\ PassedAdmission(r) /\ Cardinality(AdmittedBefore(r)) + 1 = Quota
    /\ PassedAdmission(q) /\ SameClient(q, r)
    /\ req[r].pc \notin {"idle", "done"} /\ req[q].pc \notin {"idle", "done"}

\* the required fields of the route's schema that the body does not carry
MissingRequired(route, body) ==
  {SchemaOf(route)[i].name : i \in
     {j \in 1..Len(SchemaOf(route)) : /\ ~SchemaOf(route)[j].optional
                                      /\ ~Has(body.members, SchemaOf(route)[j].name)}}

Names(issues) == {issues[i].path : i \in 1..Len(issues)}

\* the request's body breaks the route's schema: it lacks a required
\* field, or it is one of the pool's violating bodies on its own route
Violates(r) ==
  /\ req[r].body.kind = "object"
  /\ \/ MissingRequired(req[r].route, req[r].body) # {}
     \/ req[r].body \in ViolatingBodies /\ req[r].route = HomeRoute(req[r].body)

TouchedCacheOrProvider(r) ==
  \/ req[r].pc \in {"get", "provider", "set"}
  \/ \E i \in 1..Len(req[r].ops) :
       req[r].ops[i] \in {"get:hit", "get:miss", "get:error", "get:throw",
                          "provider:error", "provider:empty", "provider:malformed",
                          "provider:ok", "set:ok", "set:error", "set:throw"}

\* C4: a request whose body breaks its schema never reads or writes the
\* cache and never calls the provider, and no cache entry is stored under
\* a key that no schema-valid request derives.
C4_InvalidNeverReachesCache ==
  /\ \A r \in Reqs : Violates(r) => ~TouchedCacheOrProvider(r)
  /\ \A k \in DOMAIN cache : \E r \in Reqs : req[r].key = k /\ ~Violates(r)

W_C4 ==
  \E r \in Reqs : Violates(r) /\ Done(r) /\ PassedAdmission(r)
                  /\ req[r].body \in ViolatingBodies

\* C5 as stated: every request that lacks a required field or breaks a
\* length or enum bound is answered 400 "Validation failed" with an issue
\* whose path is the offending field.
C5_EveryViolation400 ==
  \A r \in Reqs :
    Violates(r) /\ Done(r)
    => /\ req[r].resp.status = 400
       /\ req[r].resp.error = "Validation failed"
       /\ Offending(req[r].body) \in Names(req[r].resp.issues)

\* C5 amended: a request that passed admission and lacks a required field
\* or breaks a length or enum bound is answered 400 "Validation failed"
\* with an issue whose path is the offending field.
C5_ValidationFailed400 ==
  \A r \in Reqs :
    Violates(r) /\ PassedAdmission(r) /\ Done(r)
    => /\ req[r].resp.status = 400
       /\ req[r].resp.error = "Validation failed"
       /\ MissingRequired(req[r].route, req[r].body) \subseteq Names(req[r].resp.issues)
       /\ req[r].route = HomeRoute(req[r].body) /\ req[r].body \in ViolatingBodies
          => Offending(req[r].body) \in Names(req[r].resp.issues)

W_C5 ==
  \E r \in Reqs : /\ req[r].body = GenShortGoal /\ req[r].route = GEN
                  /\ req[r].resp.status = 400
                  /\ Names(req[r].resp.issues) = {"goal"}

\* the reply is no JSON, or is JSON without `ads` (generation), without
\* `grade` or without `suggestions` (inspection)
BreaksContract(route, reply) ==
  \/ reply.kind = "text"
  \/ /\ reply.kind \in {"object", "null"}
     /\ IF route = GEN THEN ~Has(reply.members, "ads")
        ELSE ~Has(reply.members, "grade") \/ ~Has(reply.members, "suggestions")

Writers(k) == {r \in Reqs : req[r].key = k /\ Done(r) /\ Last(req[r].ops) = "set:ok"}

\* C6: a request whose provider reply breaks the data contract ends with
\* status 500 without a cache write, and every stored entry was written by
\* a request whose reply kept the contract.
C6_MalformedNeverCached ==
  /\ \A r \in Reqs :
       req[r].reply # NoReply /\ BreaksContract(req[r].route, req[r].reply)
       => /\ Done(r)
          /\ req[r].resp.status = 500
          /\ Last(req[r].ops) = "provider:malformed"
  /\ \A k \in DOMAIN cache :
       \E r \in Writers(k) : /\ cache[k].value = req[r].entry
                             /\ ~BreaksContract(req[r].route, req[r].reply)

W_C6 ==
  \E r, q \in Reqs :
    /\ req[r].reply \in {NotJson, NoAds, NoGrade, NoSuggestions}
    /\ req[r].resp.status = 500
    /\ req[q].key = req[r].key /\ Last(req[q].ops) = "set:ok"

\* C7: a request served from the cache has called neither the provider nor
\* kv.set and returns with status 200 the entry the lookup gave, which a
\* request of the same key wrote; a request that reached the provider had
\* missed the cache.
C7_HitSkipsProvider ==
  \A r \in Reqs :
    /\ Did(r, "get:hit")
       => /\ Done(r)
          /\ Last(req[r].ops) = "get:hit"
          /\ req[r].reply = NoReply
          /\ req[r].resp.status = 200
          /\ req[r].resp.payload = req[r].got
          /\ \E w \in Reqs \ {r} : /\ req[w].key = req[r].key
                                   /\ Last(req[w].ops) = "set:ok"
                                   /\ req[w].entry = req[r].got
    /\ req[r].pc \in {"provider", "set"} \/ req[r].reply # NoReply
       => Did(r, "get:miss") \/ Did(r, "get:error")

W_C7 ==
  \E r \in Reqs : /\ Last(req[r].ops) = "get:hit"
                  /\ req[r].resp.payload.name \in {"ads", "analysis"}
                  /\ Live(req[r].key)

\* C8: a request whose provider call fails ends with status 500, carrying
\* the failure's message, without a cache write.
C8_ProviderFailure500 ==
  \A r \in Reqs :
    req[r].reply = TransportError
    => /\ Done(r)
       /\ req[r].resp.status = 500
       /\ req[r].resp.error = ProviderFailed(req[r].route)
       /\ Last(req[r].ops) = "provider:error"
       /\ ~Did(r, "set:ok")

W_C8 ==
  \E r \in Reqs : /\ req[r].reply = TransportError
                  /\ req[r].resp.status = 500
                  /\ req[r].key \notin DOMAIN cache

\* C9: a request whose cache write fails after a well-formed provider
\* result still ends with status 200, marked cache "miss", carrying the
\* computed result.
C9_WriteFailureSwallowed ==
  \A r \in Reqs :
    Done(r) /\ Last(req[r].ops) \in {"set:error", "set:throw"}
    => /\ req[r].resp.status = 200
       /\ req[r].resp.cache = "miss"
       /\ req[r].resp.payload = EntryOf(req[r].route, req[r].reply)

W_C9 ==
  \E r \in Reqs : /\ Last(req[r].ops) = "set:error"
                  /\ req[r].resp.status = 200
                  /\ req[r].key \notin DOMAIN cache

\* C10: a request whose cache lookup fails goes on to the provider as on a
\* miss, and with a well-formed reply ends with status 200 marked cache
\* "miss"; no response reports the read failure.
C10_ReadFailureIsMiss ==
  \A r \in Reqs :
    /\ ~Did(r, "get:throw")
    /\ Did(r, "get:error")
       => \/ req[r].pc \in {"provider", "set"}
          \/ /\ Done(r)
             /\ req[r].reply # NoReply
             /\ (req[r].reply \in GoodReplies[req[r].route]
                 => req[r].resp.status = 200 /\ req[r].resp.cache = "miss")

W_C10 ==
  \E r \in Reqs : /\ Did(r, "get:error")
                  /\ req[r].resp.status = 200
                  /\ req[r].resp.cache = "miss"

\* C12: the same valid generation request sent 4 times in sequence by one
\* client within one 24-hour window is answered, in order, 200 with cache
\* "miss", 200 with cache "hit", 200 with cache "hit" and 429.
C12_MissHitHit429 ==
  \A r \in Reqs :
    /\ Done(r)
    /\ r <= Quota + 1
    /\ req[r].route = GEN /\ req[r].body = GenA
    /\ req[r].decidedAt < req[1].decidedAt + Window
    => CASE r = 1 -> req[r].resp.status = 200 /\ req[r].resp.cache = "miss"
         [] r = Quota + 1 -> req[r].resp.status = 429
         [] OTHER -> req[r].resp.status = 200 /\ req[r].resp.cache = "hit"

\* C13 as stated: once an entry is written for a key, it stays as it is
\* until it expires, whatever the interleaving, and every read of the key
\* until then returns its value.
C13_NeverRewritten ==
  [][/\ \A k \in DOMAIN cache : Live(k) => cache'[k] = cache[k]
     /\ \A r \in Reqs :
          /\ req[r].pc = "get" /\ req'[r].pc # "get" /\ Live(req[r].key)
          /\ Last(req'[r].ops) # "get:error"
          => req'[r].got = cache[req[r].key].value]_vars

\* C13 amended: a request whose lookup succeeds on a live entry is answered
\* with the entry's value and writes nothing; a live entry is replaced only
\* by a request whose own lookup had missed or failed, and then as a whole
\* (value and expiry).
C13_ReadSharedUntilRewritten ==
  [][/\ \A r \in Reqs :
          /\ req[r].pc = "get" /\ req'[r].pc # "get"
          /\ Live(req[r].key)
          /\ Last(req'[r].ops) # "get:error"
          => /\ req'[r].pc = "done"
             /\ Last(req'[r].ops) = "get:hit"
             /\ req'[r].got = cache[req[r].key].value
             /\ req'[r].resp.payload = cache[req[r].key].value
             /\ cache' = cache
     /\ \A k \in DOMAIN cache :
          Live(k) /\ cache'[k] # cache[k]
          => \E r \in Reqs :
               /\ req[r].pc = "set" /\ req'[r].pc = "done" /\ req[r].key = k
               /\ Did(r, "get:miss") \/ Did(r, "get:error")
               /\ cache'[k] = Stored(req[r].entry, now + TTL(req[r].route))]_vars

W_C13 ==
  \E r, w \in Reqs :
    /\ r # w
    /\ req[w].key = req[r].key /\ Last(req[w].ops) = "set:ok"
    /\ Last(req[r].ops) = "get:hit"
    /\ Live(req[r].key)
    /\ req[r].got = cache[req[r].key].value
    /\ cache[req[r].key].value = req[w].entry

\* C14: a successful write stores the writer's own result with a fresh
\* expiry whatever entry the key holds, and the writer is answered 200 with
\* its own result; so of two concurrent requests of one key that both
\* missed, both call the provider, both write, and the later write stays.
C14_LastWriteWins ==
  [][\A r \in Reqs :
       req[r].pc = "set" /\ req'[r].pc = "done" /\ Last(req'[r].ops) = "set:ok"
       => /\ cache'[req[r].key] = Stored(EntryOf(req[r].route, req[r].reply),
                                         now + TTL(req[r].route))
          /\ req'[r].resp.status = 200
          /\ req'[r].resp.cache = "miss"
          /\ req'[r].resp.payload = EntryOf(req[r].route, req[r].reply)
          /\ \A q \in Reqs \ {r} : req'[q] = req[q]]_vars

W_C14 ==
  \E r, q \in Reqs :
    /\ r # q /\ ticks = 0
    /\ req[r].key = req[q].key
    /\ Did(r, "get:miss") /\ Did(q, "get:miss")
    /\ Last(req[r].ops) = "set:ok" /\ Last(req[q].ops) = "set:ok"
    /\ req[r].reply # req[q].reply
    /\ req[r].resp.status = 200 /\ req[q].resp.status = 200
    /\ req[r].resp.payload = req[r].entry /\ req[q].resp.payload = req[q].entry
    /\ req[r].resp.payload # req[q].resp.payload
    /\ cache[req[r].key].value = req[q].entry

\* C15: a request whose limiter call fails ends with status 500; its body
\* is not read, the cache is neither read nor written and the provider is
\* not called; it is not admitted, and every finished request has a
\* response.
C15_LimiterFailureFailsClosed ==
  \A r \in Reqs :
    /\ Done(r) => req[r].resp.status \in {200, 400, 429, 500}
    /\ Did(r, "limit:error")
       => /\ Done(r)
          /\ req[r].resp.status = 500
          /\ req[r].ops = <<"limit:error">>
          /\ ~PassedAdmission(r)
          /\ ~TouchedCacheOrProvider(r)
          /\ req[r].key = "" /\ req[r].got = Null
          /\ req[r].reply = NoReply /\ req[r].entry = Null
          /\ req[r].resp.payload = Null

W_C15 ==
  \E r, q \in Reqs :
    /\ req[r].ops = <<"limit:error">> /\ req[r].resp.status = 500
    /\ req[r].body \in ValidBodies /\ req[r].route = HomeRoute(req[r].body)
    /\ q # r /\ SameClient(q, r) /\ req[q].body = req[r].body
    /\ req[q].resp.status = 200

\* C16: a request whose body is no JSON is answered 500 "Invalid JSON
\* payload", which is not the 400 "Validation failed" answer with issues
\* that a schema violation gets, and it never reads or writes the cache
\* and never calls the provider.
C16_BadJsonDistinct ==
  \A r \in Reqs :
    req[r].body = Garbage /\ PassedAdmission(r) /\ req[r].pc # "body"
    => /\ Done(r)
       /\ req[r].ops = <<"limit:ok", "json:error">>
       /\ req[r].resp.status = 500
       /\ req[r].resp.error = "Invalid JSON payload"
       /\ req[r].resp.error # "Validation failed"
       /\ req[r].resp.issues = <<>>
       /\ ~TouchedCacheOrProvider(r)
       /\ \A q \in Reqs :
            Did(q, "validate:fail")
            => /\ req[q].resp.status = 400
               /\ req[q].resp.error = "Validation failed"
               /\ req[q].resp.issues # <<>>
               /\ req[q].resp # req[r].resp

W_C16 ==
  \E r, q \in Reqs :
    /\ req[r].body = Garbage /\ req[r].route = GEN /\ req[r].resp.status = 500
    /\ req[q].route = GEN /\ req[q].resp.status = 400
    /\ req[q].resp.issues # <<>>

\* C19: on each endpoint a failed provider call and a provider reply that
\* breaks the data contract are both answered 500, with different error
\* messages.
C19_ProviderErrorsDistinct ==
  \A r, q \in Reqs :
    /\ req[r].reply = TransportError
    /\ req[q].reply # NoReply /\ BreaksContract(req[q].route, req[q].reply)
    /\ req[q].route = req[r].route
    => /\ req[r].resp.status = 500 /\ req[q].resp.status = 500
       /\ req[r].resp.error # "" /\ req[q].resp.error # ""
       /\ req[r].resp.error # req[q].resp.error
       /\ req[r].resp.error = (IF req[r].route = GEN THEN "OpenAI request failed"
                                ELSE "Analysis failed")
       /\ req[q].resp.error = (IF req[q].route = GEN THEN "Received malformed ad data"
                                ELSE "Received malformed analysis data")

W_C19 ==
  \E r, q \in Reqs :
    /\ req[r].reply = TransportError /\ req[q].reply = NotJson
    /\ req[r].route = INSP /\ req[q].route = INSP
    /\ req[r].resp.status = 500 /\ req[q].resp.status = 500
    /\ req[r].resp.error # req[q].resp.error

HasKey(r) == req[r].key # ""

\* the value a body gives each field of the route's schema
FieldsOf(route, body) ==
  [i \in 1..Len(SchemaOf(route)) |-> Member(body.members, SchemaOf(route)[i].name)]

\* C17: the cache key of a request depends on the route and on the
\* validated request only: two requests of one route with the same value
\* (or absence) for every schema field have the same key, whoever sent them
\* and whenever; a generation key starts with "gen-ad:", an inspection key
\* with "inspect:", and the two are never equal.
C17_KeyIsPure ==
  \A r, q \in Reqs :
    HasKey(r) /\ HasKey(q)
    => /\ IF req[r].route = GEN THEN SubSeq(req[r].key, 1, 7) = "gen-ad:"
          ELSE SubSeq(req[r].key, 1, 8) = "inspect:"
       /\ req[r].route = req[q].route
          /\ FieldsOf(req[r].route, req[r].body) = FieldsOf(req[q].route, req[q].body)
          => req[r].key = req[q].key
       /\ req[r].route # req[q].route => req[r].key # req[q].key

W_C17 ==
  \E r, q \in Reqs :
    /\ HasKey(r) /\ HasKey(q)
    /\ req[r].route = GEN /\ req[q].route = INSP
    /\ req[r].ip # req[q].ip /\ req[r].decidedAt # req[q].decidedAt
    /\ SubSeq(req[r].key, 1, 7) = "gen-ad:" /\ SubSeq(req[q].key, 1, 8) = "inspect:"
    /\ req[r].key # req[q].key

\* C18: two bodies with the same values for the schema's fields, in
\* whatever order and with whatever undeclared members, validate to the
\* same request and derive the same key, and the second is served from the
\* entry the first stored.
C18_OrderAndExtrasIgnored ==
  [][\A r, w \in Reqs :
       /\ r # w
       /\ req[r].pc = "get" /\ req'[r].pc # "get"
       /\ Last(req[w].ops) = "set:ok" /\ Live(req[w].key)
       /\ req[r].route = req[w].route
       /\ FieldsOf(req[r].route, req[r].body) = FieldsOf(req[w].route, req[w].body)
       => /\ ZodData(SchemaOf(req[r].route), req[r].body.members)
               = ZodData(SchemaOf(req[w].route), req[w].body.members)
          /\ req[r].key = req[w].key
          /\ Last(req'[r].ops) = "get:hit"
          /\ req'[r].got = cache[req[w].key].value
          /\ req'[r].resp.status = 200]_vars

W_C18 ==
  \E r, w \in Reqs :
    /\ req[r].body \in {GenShuffled, GenExtra, InsShuffled, InsExtra}
    /\ req[w].body \in {GenA, InsA}
    /\ Last(req[w].ops) = "set:ok"
    /\ Last(req[r].ops) = "get:hit"
    /\ req[r].key = req[w].key
    /\ req[r].got = req[w].entry

\* the client addresses of the model's headers
Clients == {"127.0.0.1", "203.0.113.7", "198.51.100.9"}

\* C11: the admission of a request changes the limiter's count and the
\* limiter's decision for no other pair of endpoint and client, and a
\* request is rejected only when 3 requests of its own client on its own
\* endpoint were admitted within the trailing window.
C11_QuotasIndependent ==
  [][\A r \in Reqs :
       req[r].pc = "idle" /\ req'[r].pc # "idle"
       => /\ req'[r].ip \in Clients
          /\ \A route \in Routes, ip \in Clients :
               (route # req'[r].route \/ ip # req'[r].ip)
               => /\ Hits(limiter', LimiterKey(route, ip))
                       = Hits(limiter, LimiterKey(route, ip))
                  /\ Decide(limiter', LimiterKey(route, ip), now)
                       = Decide(limiter, LimiterKey(route, ip), now)
          /\ req'[r].resp.status = 429
             => Cardinality({q \in Reqs \ {r} :
                               /\ PassedAdmission(q)
                               /\ req[q].route = req'[r].route
                               /\ req[q].ip = req'[r].ip
                               /\ req[q].decidedAt > now - Window}) >= Quota]_vars

W_C11 ==
  \E r \in Reqs :
    /\ PassedAdmission(r)
    /\ Cardinality({q \in Reqs : /\ PassedAdmission(q)
                                 /\ req[q].ip = req[r].ip
                                 /\ req[q].route # req[r].route
                                 /\ req[q].decidedAt = req[r].decidedAt}) = Quota

\* the requests other than r without a usable forwarded address that
\* passed admission on r's route within the window ending at r's decision
Unaddressed(r) ==
  {q \in Reqs \ {r} : /\ PassedAdmission(q)
                      /\ req[q].hdr \in {HdrAbsent, HdrEmpty}
                      /\ req[q].route = req[r].route
                      /\ req[q].decidedAt > req[r].decidedAt - Window
                      /\ req[q].decidedAt <= req[r].decidedAt}

\* C20: the client key is the trimmed first entry of the forwarded-address
\* header, or 127.0.0.1 when the header is absent or that entry is empty;
\* the requests without a usable address on one route share one quota of 3
\* per window.
C20_ClientKey ==
  \A r \in Reqs :
    req[r].pc # "idle"
    => /\ req[r].hdr \in {HdrAbsent, HdrEmpty} => req[r].ip = "127.0.0.1"
       /\ req[r].hdr \in {HdrA, HdrAList} => req[r].ip = "203.0.113.7"
       /\ req[r].hdr \in {HdrAbsent, HdrEmpty} /\ PassedAdmission(r)
          => Cardinality(Unaddressed(r)) + 1 <= Quota
       /\ req[r].hdr \in {HdrAbsent, HdrEmpty} /\ Cardinality(Unaddressed(r)) >= Quota
          => req[r].resp.status = 429

W_C20 ==
  \E r \in Reqs :
    /\ req[r].hdr = HdrAbsent /\ req[r].resp.status = 429
    /\ \E q \in Unaddressed(r) : req[q].hdr = HdrEmpty
    /\ \E q \in Unaddressed(r) : req[q].hdr = HdrAbsent

\* C21: outside development mode no error response carries a stack trace,
\* and every 500 body consists of an error message and an error code only,
\* on both endpoints.
C21_NoStackInProduction ==
  \A r \in Reqs :
    Done(r) /\ NodeEnv # "development"
    => /\ req[r].resp.stack = ""
       /\ req[r].resp.status = 500
          => /\ req[r].resp.error # "" /\ req[r].resp.code # ""
             /\ req[r].resp.issues = <<>> /\ req[r].resp.reset = 0
             /\ req[r].resp.payload = Null /\ req[r].resp.cache = "none"

W_C21 ==
  /\ NodeEnv = "production"
  /\ \E r, q \in Reqs :
       /\ req[r].route = INSP /\ req[q].route = INSP
       /\ req[r].resp.status = 500 /\ Last(req[r].ops) = "provider:error"
       /\ req[q].resp.status = 500 /\ Last(req[q].ops) = "json:error"

\* C22: a write stores the entry for 1 hour (generation) resp. 24 hours
\* (inspection); a lookup of an entry whose time has elapsed is a miss that
\* goes on to the provider; a hit ends the request and leaves the entry and
\* its expiry as they were.
C22_ExpiredEntryMisses ==
  [][\A r \in Reqs :
       /\ ( /\ req[r].pc = "get" /\ req'[r].pc # "get"
            /\ req[r].key \in DOMAIN cache
            /\ cache[req[r].key].expires <= now )
          => /\ req'[r].pc = "provider"
             /\ Last(req'[r].ops) = "get:miss"
             /\ cache' = cache
       /\ ( /\ req[r].pc = "get"
            /\ Last(req'[r].ops) = "get:hit" )
          => /\ cache[req[r].key].expires > now
             /\ req'[r].pc = "done"
             /\ cache' = cache
       /\ ( /\ req[r].pc = "set"
            /\ Last(req'[r].ops) = "set:ok" )
          => cache'[req[r].key].expires
               = now + (IF req[r].route = GEN THEN 1 ELSE 24)]_vars

W_C22 ==
  \E w, h, r \in Reqs :
    /\ w < h /\ h < r
    /\ req[w].route = INSP
    /\ req[h].key = req[w].key /\ req[r].key = req[w].key
    /\ Last(req[w].ops) = "set:ok" /\ req[w].decidedAt = 0
    /\ Last(req[h].ops) = "get:hit" /\ req[h].decidedAt = InspTTL - GenTTL
    /\ Did(r, "get:miss") /\ Did(r, "provider:ok")
    /\ req[r].decidedAt = InspTTL
    /\ req[r].entry # req[w].entry

\* what a request has done beyond the limiter's decision
Untouched(r) ==
  /\ req[r].ops = <<"limit:reject">>
  /\ req[r].key = "" /\ req[r].got = Null
  /\ req[r].reply = NoReply /\ req[r].entry = Null

\* C23: a request the limiter does not admit is answered 429 whatever its
\* body, and a request answered 429 has read no body and has made no cache
\* lookup, no provider call and no cache write.
C23_RejectedFirst ==
  \A r \in Reqs :
    /\ ( /\ req[r].pc # "idle"
         /\ req[r].ops[1] # "limit:error"
         /\ ~req[r].decision.success )
       => Done(r) /\ req[r].resp.status = 429 /\ Untouched(r)
    /\ req[r].resp.status = 429 => Untouched(r)

W_C23 ==
  \E r, q \in Reqs :
    /\ req[r].resp.status = 429 /\ req[r].body = Garbage
    /\ q \in AdmittedBefore(r) /\ Did(q, "set:ok")

\* the requests of AdmittedBefore(r) that ended without a computed result:
\* by a 400, by a 500 or by a cache hit
EndedOtherwise(r) ==
  {q \in AdmittedBefore(r) : /\ Done(q)
                             /\ \/ req[q].resp.status \in {400, 500}
                                \/ Last(req[q].ops) = "get:hit"}

\* C24: a request the limiter admits holds a unit of its client's quota on
\* its route however it ends: the units held in the window are as many as
\* the requests admitted in it, and a request decided after 3 requests of
\* its client on its route that ended with 400, with 500 or with a cache
\* hit within the window is answered 429.
C24_EveryEndingCounts ==
  \A r \in Reqs :
    req[r].pc # "idle" /\ req[r].ops[1] # "limit:error"
    => /\ Len(InWindow(Hits(limiter, LimiterKey(req[r].route, req[r].ip)), now))
            = Cardinality({q \in Reqs : /\ PassedAdmission(q) /\ SameClient(q, r)
                                        /\ req[q].decidedAt > now - Window})
       /\ Cardinality(EndedOtherwise(r)) >= Quota => req[r].resp.status = 429

W_C24 ==
  \E r \in Reqs :
    /\ req[r].resp.status = 429
    /\ \E q \in EndedOtherwise(r) : req[q].resp.status = 400
    /\ \E q \in EndedOtherwise(r) : Last(req[q].ops) = "json:error"
    /\ \E q \in EndedOtherwise(r) : Last(req[q].ops) = "provider:malformed"

\* C25: each stored entry is the result a request computed from a provider
\* reply that keeps the route's contract, and that request derived the
\* entry's key; two requests that derive one key have the same route and
\* the same value for every validated field; the result a cache hit returns was computed
\* by a request of the same route with the same validated fields.
C25_EntriesBelongToTheirKey ==
  /\ \A k \in DOMAIN cache :
       \E w \in Writers(k) :
         /\ cache[k].value = EntryOf(req[w].route, req[w].reply)
         /\ ~BreaksContract(req[w].route, req[w].reply)
         /\ Did(w, "provider:ok")
  /\ \A r, q \in Reqs :
       HasKey(r) /\ r < q /\ req[r].key = req[q].key
       => /\ req[r].route = req[q].route
          /\ FieldsOf(req[r].route, req[r].body) = FieldsOf(req[q].route, req[q].body)
  /\ \A r \in Reqs :
       Last(req[r].ops) = "get:hit"
       => \E w \in Reqs \ {r} :
            /\ Last(req[w].ops) = "set:ok"
            /\ req[w].route = req[r].route
            /\ req[r].got = req[w].entry
            /\ req[w].entry = EntryOf(req[w].route, req[w].reply)
            /\ FieldsOf(req[w].route, req[w].body) = FieldsOf(req[r].route, req[r].body)

W_C25 ==
  \E w, v, r \in Reqs :
    /\ Last(req[w].ops) = "set:ok" /\ Last(req[v].ops) = "set:ok"
    /\ req[w].route = req[v].route /\ req[w].body # req[v].body
    /\ req[w].entry # req[v].entry
    /\ Last(req[r].ops) = "get:hit" /\ req[r].body = req[w].body
    /\ w < v /\ v < r
    /\ req[r].got = req[w].entry

\* C26: when every awaited operation completes or fails in the end, every
\* request that was received is answered in the end; a request has a
\* response exactly when it is done, the response never changes afterwards,
\* and its status is 200, 400, 429 or 500, whatever failed.
C26_EveryRequestAnswered ==
  /\ [](\A r \in Reqs :
          /\ Done(r) <=> req[r].resp # NoResponse
          /\ Done(r) => req[r].resp.status \in {200, 400, 429, 500})
  /\ [][\A r \in Reqs : Done(r) => req'[r] = req[r]]_vars
  /\ \A r \in 1..NReqLive : (req[r].pc # "idle") ~> Done(r)

W_C26 ==
  \E r, q \in Reqs :
    /\ Done(r) /\ Done(q)
    /\ req[q].ops = <<"limit:error">> /\ req[q].resp.status = 500
    /\ Did(r, "get:error") /\ Last(req[r].ops) = "set:error"
    /\ req[r].resp.status = 200

\* C27: a provider call that completes with empty or missing message
\* content ends the request with status 500 and the message "Empty response
\* from OpenAI", and the request writes nothing to the cache.
C27_EmptyContentNotCached ==
  \A r \in Reqs :
    req[r].reply = EmptyContent
    => /\ Done(r)
       /\ req[r].resp.status = 500
       /\ req[r].resp.error = "Empty response from OpenAI"
       /\ Last(req[r].ops) = "provider:empty"
       /\ req[r].entry = Null
       /\ r \notin Writers(req[r].key)
       /\ \A k \in DOMAIN cache : \E w \in Writers(k) : req[w].reply # EmptyContent

W_C27 ==
  \E r, q \in Reqs :
    /\ req[r].route = GEN /\ req[r].reply = EmptyContent /\ req[r].resp.status = 500
    /\ req[q].route = INSP /\ req[q].reply = EmptyContent /\ req[q].resp.status = 500
    /\ DOMAIN cache = {}

\* C28: a generation request and an inspection request that went through
\* the same stages with the same outcomes (limiter, JSON, schema, lookup,
\* provider, shape, write) are answered with the same status and the same
\* cache marker.
C28_SamePipeline ==
  \A g, i \in Reqs :
    /\ req[g].route = GEN /\ req[i].route = INSP
    /\ Done(g) /\ Done(i)
    /\ req[g].ops = req[i].ops
    => /\ req[g].resp.status = req[i].resp.status
       /\ req[g].resp.cache = req[i].resp.cache

====
